---- MODULE Spec2Model ----
(***************************************************************************)
(* Version reconciliation and restore: the four scripts of the repository  *)
(* (b2-bulk-restore, s3-bulk-restore, s3-restore-deleted and               *)
(* s3-version-restore) as one state machine.  A run connects, checks the   *)
(* bucket's versioning status (S3 scripts), lists the version history      *)
(* page by page, builds the restore plan, passes the confirmation prompt   *)
(* and then walks the plan, entry by entry, in dry-run or execute mode.    *)
(***************************************************************************)
EXTENDS Integers, Sequences, FiniteSets, TLC

VARIABLES
    script,            \* which of the four scripts runs
    args,              \* parsed command line: execute, verbose, restore_previous_versions
    store,             \* the bucket: key -> version records, newest first
    is_latest,         \* key -> the IsLatest flag the listing reports for each record
    pc,                \* position of main()
    params,            \* list_object_versions request parameters (paging cursor)
    versions,          \* bulk scripts: collected history, key -> list of records
    restorable_files,  \* s3-version-restore / s3-restore-deleted: dict being built
    files,             \* s3-version-restore / s3-restore-deleted: the plan
    latest_versions,   \* bulk scripts: the plan
    totals,            \* byte totals reported before the prompt
    confirm,           \* what the operator typed at the prompt (None: no prompt shown)
    dry_run,           \* the executor's dry_run argument (its default until main() calls it)
    idx,               \* executor loop: number of plan entries already handled
    restored,          \* executor counter
    failed,            \* executor counter
    calls,             \* every request issued to the storage transport, in order
    out,               \* the executor's "Would restore" descriptions, in order
    earlier_runs       \* the request logs of the invocations that ended before this one

vars == <<script, args, store, is_latest, pc, params, versions, restorable_files, files,
          latest_versions, totals, confirm, dry_run, idx, restored, failed, calls, out,
          earlier_runs>>

(***************************************************************************)
(* Bounds of the model.                                                    *)
(***************************************************************************)
MaxVersions == 3     \* records in one key's history
MaxRecords == 4      \* records in the whole bucket
MaxPageSize == 2     \* records the transport returns in one listing page

None == "None"
BucketName == "bucket"

\* The keys of the bucket, in the order the transport lists them.
Keys == <<"A", "B">>
KeySet == {Keys[i] : i \in 1..Len(Keys)}

\* Version ids are opaque strings; the n-th version ever created under a key.
VersionIdTable ==
    [A |-> <<"a1", "a2", "a3", "a4", "a5", "a6", "a7", "a8">>,
     B |-> <<"b1", "b2", "b3", "b4", "b5", "b6", "b7", "b8">>]
VersionIdOf(k, n) == VersionIdTable[k][n]

\* Object sizes in bytes: A's versions are 80, 100, 120, ...; B's 40, 50, 60, ...
SizeOf(k, n) == IF k = "A" THEN 60 + 20 * n ELSE 30 + 10 * n

Min(a, b) == IF a < b THEN a ELSE b

RECURSIVE FoldSeq(_, _, _)
FoldSeq(Op(_, _), acc, seq) ==
    IF seq = << >> THEN acc ELSE FoldSeq(Op, Op(acc, Head(seq)), Tail(seq))

(***************************************************************************)
(* Python dicts keep insertion order: a dict is the sequence of its keys   *)
(* in insertion order together with the key -> value map.                  *)
(***************************************************************************)
DictEmpty == [keys |-> << >>, val |-> << >>]
DictHas(d, k) == k \in DOMAIN d.val
DictGet(d, k) == d.val[k]
DictSet(d, k, v) ==
    IF DictHas(d, k)
    THEN [keys |-> d.keys, val |-> (k :> v) @@ d.val]
    ELSE [keys |-> Append(d.keys, k), val |-> (k :> v) @@ d.val]
DictLen(d) == Len(d.keys)
DictKeySet(d) == DOMAIN d.val
\* {k: v for k, v in d.items() if Keep(v)}
DictFilter(d, Keep(_)) ==
    LET kept == SelectSeq(d.keys, LAMBDA k : Keep(d.val[k]))
    IN [keys |-> kept,
        val |-> [k \in {kept[i] : i \in 1..Len(kept)} |-> d.val[k]]]

(***************************************************************************)
(* The bucket.  A key's history is a sequence of records, newest first;    *)
(* the n-th version created under a key carries timestamp n.               *)
(***************************************************************************)
HistoryOf(k, kinds) ==
    LET n == Len(kinds)
    IN [i \in 1..n |->
          LET c == n - i + 1
          IN [VersionId |-> VersionIdOf(k, c),
              IsDeleteMarker |-> kinds[i],
              LastModified |-> c,
              Size |-> IF kinds[i] THEN 0 ELSE SizeOf(k, c)]]

Histories(k) ==
    UNION {{HistoryOf(k, kinds) : kinds \in [1..n -> BOOLEAN]} : n \in 0..MaxVersions}

RECURSIVE RecordCount(_, _)
RecordCount(st, i) ==
    IF i > Len(Keys) THEN 0 ELSE Len(st[Keys[i]]) + RecordCount(st, i + 1)

Stores ==
    {st \in [KeySet -> UNION {Histories(k) : k \in KeySet}] :
        /\ \A k \in KeySet : st[k] \in Histories(k)
        /\ RecordCount(st, 1) <= MaxRecords}

\* The IsLatest flags of a self-consistent listing: the newest record of each key.
LatestFlags(st) == [k \in KeySet |-> [i \in 1..Len(st[k]) |-> i = 1]]

ContentIds(st, k) ==
    {st[k][i].VersionId : i \in {j \in 1..Len(st[k]) : ~st[k][j].IsDeleteMarker}}
MarkerIds(st, k) ==
    {st[k][i].VersionId : i \in {j \in 1..Len(st[k]) : st[k][j].IsDeleteMarker}}
AllIds(st, k) == {st[k][i].VersionId : i \in 1..Len(st[k])}

(***************************************************************************)
(* The storage transport, as the scripts see it.                           *)
(***************************************************************************)
\* One key's records as list_object_versions reports them.
KeyListing(st, k) ==
    [i \in 1..Len(st[k]) |->
        [Key |-> k,
         VersionId |-> st[k][i].VersionId,
         IsLatest |-> is_latest[k][i],
         LastModified |-> st[k][i].LastModified,
         Size |-> st[k][i].Size,
         IsDeleteMarker |-> st[k][i].IsDeleteMarker]]

\* The whole bucket in listing order: by key, then newest first.
RECURSIVE Listing(_, _)
Listing(st, i) ==
    IF i > Len(Keys) THEN << >> ELSE KeyListing(st, Keys[i]) \o Listing(st, i + 1)

\* Index of the record the paging cursor of a request points at (0: from the start).
CursorIndex(L, p) ==
    IF "KeyMarker" \notin DOMAIN p
    THEN 0
    ELSE CHOOSE i \in 1..Len(L) :
            L[i].Key = p.KeyMarker /\ L[i].VersionId = p.VersionIdMarker

\* The response to list_object_versions(**p) when the transport returns n records.
ListObjectVersions(st, p, n) ==
    LET L == Listing(st, 1)
        from == CursorIndex(L, p)
        to == Min(Len(L), from + n)
        page == SubSeq(L, from + 1, to)
        more == to < Len(L)
    IN [Versions |-> SelectSeq(page, LAMBDA r : ~r.IsDeleteMarker),
        DeleteMarkers |-> SelectSeq(page, LAMBDA r : r.IsDeleteMarker),
        IsTruncated |-> more,
        NextKeyMarker |-> IF more THEN L[to].Key ELSE None,
        NextVersionIdMarker |-> IF more THEN L[to].VersionId ELSE None]

\* bucket.ls(latest_only=False, recursive=True): every file version, by name, newest first.
BucketLs(st) ==
    LET L == Listing(st, 1)
    IN [i \in 1..Len(L) |->
          [id_ |-> L[i].VersionId,
           file_name |-> L[i].Key,
           upload_timestamp |-> L[i].LastModified,
           action |-> IF L[i].IsDeleteMarker THEN "hide" ELSE "upload",
           size |-> L[i].Size]]

\* What get_bucket_versioning can answer: a response with or without a Status, or an error.
VersioningResponses ==
    {[Error |-> None, Status |-> s] : s \in {"Enabled", "Suspended", "Disabled", None}}
    \cup {[Error |-> e, Status |-> None] : e \in {"NotImplemented", "AccessDenied"}}

\* Outcomes of a listing request and of a mutation request.
ListOutcomes == {"ok", "NotImplemented", "AccessDenied"}
MutationOutcomes == {"ok", "NoSuchVersion", "InternalError"}

\* What the operator can type at the prompt.
Inputs ==
    {"PERMANENTLY DELETE VERSIONS", "permanently delete versions",
     "yes", "YES", "Yes", "y", "no", ""}

\* str.lower() on the strings of the model.
Lower(s) ==
    CASE s = "PERMANENTLY DELETE VERSIONS" -> "permanently delete versions"
      [] s = "YES" -> "yes"
      [] s = "Yes" -> "yes"
      [] s = "Enabled" -> "enabled"
      [] s = "Suspended" -> "suspended"
      [] s = "Disabled" -> "disabled"
      [] OTHER -> s

\* delete_object(Key=k, VersionId=v) carried out by the store.
DeleteVersion(st, k, v) ==
    [st EXCEPT ![k] = SelectSeq(st[k], LAMBDA r : r.VersionId # v)]

\* Number of versions ever created under a key, as far as the store shows.
RECURSIVE IdNumber(_, _, _)
IdNumber(k, v, n) == IF VersionIdOf(k, n) = v THEN n ELSE IdNumber(k, v, n + 1)
NewestNumber(st, k) == IF st[k] = << >> THEN 0 ELSE IdNumber(k, st[k][1].VersionId, 1)

\* copy_object / bucket.copy of version v of key k onto key k: a new current version.
CopyVersion(st, k, v) ==
    LET src == CHOOSE i \in 1..Len(st[k]) : st[k][i].VersionId = v
        c == NewestNumber(st, k) + 1
    IN [st EXCEPT ![k] = <<[VersionId |-> VersionIdOf(k, c),
                            IsDeleteMarker |-> FALSE,
                            LastModified |-> st[k][1].LastModified + 1,
                            Size |-> st[k][src].Size]>> \o st[k]]

Scripts == {"b2-bulk-restore", "s3-bulk-restore", "s3-restore-deleted", "s3-version-restore"}
S3Scripts == Scripts \ {"b2-bulk-restore"}
BulkScripts == {"b2-bulk-restore", "s3-bulk-restore"}

\* A request to the transport together with how the transport answered it.
Call(op, k, v, outcome) == [op |-> op, Key |-> k, VersionId |-> v, outcome |-> outcome]

(***************************************************************************)
(* The state after argument parsing.                                       *)
(***************************************************************************)
ArgSets ==
    [execute : BOOLEAN, verbose : BOOLEAN, restore_previous_versions : BOOLEAN]

Init ==
    /\ script \in Scripts
    /\ args \in {a \in ArgSets :
                    a.restore_previous_versions => script = "s3-version-restore"}
    /\ store \in Stores
    /\ is_latest = LatestFlags(store)
    /\ pc = "start"
    /\ params = [Bucket |-> BucketName]
    /\ versions = DictEmpty
    /\ restorable_files = DictEmpty
    /\ files = DictEmpty
    /\ latest_versions = DictEmpty
    /\ totals = [total_size |-> 0, total_current_size |-> 0, total_previous_size |-> 0]
    /\ confirm = None
    /\ dry_run = TRUE
    /\ idx = 0
    /\ restored = 0
    /\ failed = 0
    /\ calls = << >>
    /\ out = << >>
    /\ earlier_runs = << >>

(***************************************************************************)
(* main(): client initialisation and bucket access.                        *)
(***************************************************************************)
\* initialize_s3 / initialize_b2 and head_bucket / Bucket(): failure exits with status 1;
\* --list-buckets (S3 scripts) lists the buckets and returns.
Connect ==
    /\ pc = "start"
    /\ \E outcome \in {"ok", "fail", "list_buckets"} :
          /\ outcome = "list_buckets" => script \in S3Scripts
          /\ pc' = CASE outcome = "fail" -> "exit1"
                     [] outcome = "list_buckets" -> "returned"
                     [] OTHER -> IF script \in S3Scripts THEN "connected" ELSE "listing"
          /\ calls' = IF outcome = "list_buckets"
                      THEN Append(calls, Call("list_buckets", None, None, "ok"))
                      ELSE calls
    /\ UNCHANGED <<earlier_runs, is_latest,
                   script, args, store, params, versions, restorable_files, files,
                   latest_versions, totals, confirm, dry_run, idx, restored, failed, out>>

\* Mutant: an unexpected status is reported but lets the run go on.
s3vr_check_versioning_status_lenient(resp) ==
    IF resp.Error # None
    THEN [raised |-> resp.Error # "NotImplemented", value |-> FALSE]
    ELSE LET status == Lower(IF resp.Status = None THEN "" ELSE resp.Status)
         IN [raised |-> FALSE,
             value |-> IF status = "enabled" THEN TRUE
                       ELSE IF status = "suspended" THEN TRUE
                       ELSE IF status = "" THEN FALSE
                       ELSE TRUE]

\* check_versioning_status of the three S3 scripts: [raised, value].
s3vr_check_versioning_status(resp) ==
    IF resp.Error # None
    THEN [raised |-> resp.Error # "NotImplemented", value |-> FALSE]
    ELSE LET status == Lower(IF resp.Status = None THEN "" ELSE resp.Status)
         IN [raised |-> FALSE,
             value |-> IF status = "enabled" THEN TRUE
                       ELSE IF status = "suspended" THEN TRUE
                       ELSE IF status = "" THEN FALSE
                       ELSE FALSE]

s3rd_check_versioning_status(resp) ==
    IF resp.Error # None
    THEN [raised |-> resp.Error # "NotImplemented", value |-> FALSE]
    ELSE LET status == Lower(IF resp.Status = None THEN "" ELSE resp.Status)
         IN [raised |-> FALSE,
             value |-> IF status = "enabled" THEN TRUE
                       ELSE IF status = "suspended" THEN TRUE
                       ELSE IF status = "" THEN FALSE
                       ELSE FALSE]

s3bulk_check_versioning_status(resp) ==
    IF resp.Error # None
    THEN [raised |-> resp.Error # "NotImplemented", value |-> FALSE]
    ELSE LET status == Lower(IF resp.Status = None THEN "" ELSE resp.Status)
         IN [raised |-> FALSE,
             value |-> IF status = "enabled" THEN TRUE
                       ELSE IF status = "suspended" THEN TRUE
                       ELSE IF status = "" THEN FALSE
                       ELSE FALSE]

check_versioning_status(resp) ==
    CASE script = "s3-version-restore" -> s3vr_check_versioning_status(resp)
      [] script = "s3-restore-deleted" -> s3rd_check_versioning_status(resp)
      [] OTHER -> s3bulk_check_versioning_status(resp)

\* main(): if not check_versioning_status(...): sys.exit(1)
CheckVersioning ==
    /\ pc = "connected"
    /\ \E resp \in VersioningResponses :
          LET r == check_versioning_status(resp)
          IN /\ pc' = IF r.raised THEN "raised" ELSE IF r.value THEN "listing" ELSE "exit1"
             /\ calls' = Append(calls,
                                Call("get_bucket_versioning", None, None,
                                     IF resp.Error # None THEN resp.Error ELSE resp.Status))
    /\ UNCHANGED <<earlier_runs, is_latest,
                   script, args, store, params, versions, restorable_files, files,
                   latest_versions, totals, confirm, dry_run, idx, restored, failed, out>>

(***************************************************************************)
(* Version History Collector.                                              *)
(***************************************************************************)
ListCall(p, outcome) ==
    IF "KeyMarker" \in DOMAIN p
    THEN Call("list_object_versions", p.KeyMarker, p.VersionIdMarker, outcome)
    ELSE Call("list_object_versions", None, None, outcome)

\* Mutant: the error is swallowed and the run goes on with what was collected.
on_client_error_swallowed(code) == "collected"

\* "except ClientError" around the listing: NotImplemented exits with status 1, any
\* other error is raised again.
on_client_error(code) == IF code = "NotImplemented" THEN "exit1" ELSE "raised"

\* Mutant: the "'previous_version_id' not in" test is missing, so every older version
\* overwrites the previous one.
s3vr_previous_version_step_overwrite(rf, version) ==
    LET key == version.Key
    IN IF version.IsLatest
       THEN DictSet(rf, key, [current_version_id |-> version.VersionId,
                              current_size |-> version.Size,
                              current_modified |-> version.LastModified])
       ELSE IF DictHas(rf, key)
       THEN DictSet(rf, key, [previous_version_id |-> version.VersionId,
                              previous_size |-> version.Size,
                              previous_modified |-> version.LastModified]
                             @@ DictGet(rf, key))
       ELSE rf

\* s3-version-restore, restore_previous: one iteration of "for version in page.get('Versions', [])".
s3vr_previous_version_step(rf, version) ==
    LET key == version.Key
    IN IF version.IsLatest
       THEN DictSet(rf, key, [current_version_id |-> version.VersionId,
                              current_size |-> version.Size,
                              current_modified |-> version.LastModified])
       ELSE IF DictHas(rf, key) /\ "previous_version_id" \notin DOMAIN DictGet(rf, key)
       THEN DictSet(rf, key, [previous_version_id |-> version.VersionId,
                              previous_size |-> version.Size,
                              previous_modified |-> version.LastModified]
                             @@ DictGet(rf, key))
       ELSE rf

\* s3-version-restore, delete markers: one iteration of "for marker in page.get('DeleteMarkers', [])".
s3vr_marker_step(rf, marker) ==
    LET key == marker.Key
    IN IF marker.IsLatest
       THEN DictSet(rf, key, [delete_marker_id |-> marker.VersionId,
                              deleted_at |-> marker.LastModified])
       ELSE rf

\* s3-version-restore, delete markers: one iteration of "for version in page.get('Versions', [])".
s3vr_version_step(rf, version) ==
    LET key == version.Key
    IN IF DictHas(rf, key) /\ ~version.IsLatest
       THEN DictSet(rf, key, [previous_version_id |-> version.VersionId,
                              size |-> version.Size,
                              last_modified |-> version.LastModified]
                             @@ DictGet(rf, key))
       ELSE rf

\* s3-version-restore: the body of "for page in paginator.paginate(**params)".
s3vr_process_page(rf, page, restore_previous) ==
    IF restore_previous
    THEN FoldSeq(s3vr_previous_version_step, rf, page.Versions)
    ELSE FoldSeq(s3vr_version_step,
                 FoldSeq(s3vr_marker_step, rf, page.DeleteMarkers),
                 page.Versions)

\* Mutant: the clean-up is missing, incomplete entries stay in the plan.
s3vr_cleanup_missing(rf, restore_previous) == rf

\* s3-version-restore: the clean-up that ends get_restorable_files.
s3vr_cleanup(rf, restore_previous) ==
    IF restore_previous
    THEN DictFilter(rf, LAMBDA v : "previous_version_id" \in DOMAIN v)
    ELSE DictFilter(rf, LAMBDA v : "previous_version_id" \in DOMAIN v)

\* Mutant: every delete marker starts an entry, flagged IsLatest or not.
s3rd_marker_step_unflagged(rf, marker) ==
    LET key == marker.Key
    IN DictSet(rf, key, [delete_marker_id |-> marker.VersionId,
                         deleted_at |-> marker.LastModified])

\* s3-restore-deleted: one iteration of "for marker in page.get('DeleteMarkers', [])".
s3rd_marker_step(rf, marker) ==
    LET key == marker.Key
    IN IF marker.IsLatest
       THEN DictSet(rf, key, [delete_marker_id |-> marker.VersionId,
                              deleted_at |-> marker.LastModified])
       ELSE rf

\* s3-restore-deleted: one iteration of "for version in page.get('Versions', [])".
s3rd_version_step(rf, version) ==
    LET key == version.Key
    IN IF DictHas(rf, key) /\ ~version.IsLatest
       THEN DictSet(rf, key, [previous_version_id |-> version.VersionId,
                              size |-> version.Size,
                              last_modified |-> version.LastModified]
                             @@ DictGet(rf, key))
       ELSE rf

\* s3-restore-deleted: the body of "for page in paginator.paginate(**params)".
s3rd_process_page(rf, page) ==
    FoldSeq(s3rd_version_step,
            FoldSeq(s3rd_marker_step, rf, page.DeleteMarkers),
            page.Versions)

\* s3-restore-deleted: the filter that ends get_restorable_files.
s3rd_cleanup(rf) == DictFilter(rf, LAMBDA v : "previous_version_id" \in DOMAIN v)

\* get_restorable_files of s3-version-restore and s3-restore-deleted: one page of the
\* paginator per step; the last page's step also returns the cleaned-up dict to main().
get_restorable_files ==
    /\ pc = "listing"
    /\ script \in {"s3-version-restore", "s3-restore-deleted"}
    /\ \E outcome \in ListOutcomes, n \in 1..MaxPageSize :
          /\ calls' = Append(calls, ListCall(params, outcome))
          /\ IF outcome # "ok"
             THEN /\ pc' = on_client_error(outcome)
                  /\ UNCHANGED <<params, restorable_files, files>>
             ELSE LET page == ListObjectVersions(store, params, n)
                      rf == IF script = "s3-version-restore"
                            THEN s3vr_process_page(restorable_files, page,
                                                   args.restore_previous_versions)
                            ELSE s3rd_process_page(restorable_files, page)
                  IN /\ restorable_files' = rf
                     /\ IF page.IsTruncated
                        THEN /\ params' = [KeyMarker |-> page.NextKeyMarker,
                                           VersionIdMarker |-> page.NextVersionIdMarker]
                                          @@ params
                             /\ pc' = "listing"
                             /\ files' = files
                        ELSE /\ params' = params
                             /\ pc' = "planned"
                             /\ files' = IF script = "s3-version-restore"
                                         THEN s3vr_cleanup(rf, args.restore_previous_versions)
                                         ELSE s3rd_cleanup(rf)
    /\ UNCHANGED <<earlier_runs, is_latest,
                   script, args, store, versions, latest_versions, totals, confirm,
                   dry_run, idx, restored, failed, out>>

\* Mutant: "versions[key] = [rec]" in place of the append.
ListAppend_replace(vs, key, rec) == DictSet(vs, key, <<rec>>)

\* versions[key].append(rec), creating the list first when the key is new.
ListAppend(vs, key, rec) ==
    IF DictHas(vs, key)
    THEN DictSet(vs, key, Append(DictGet(vs, key), rec))
    ELSE DictSet(vs, key, <<rec>>)

\* s3-bulk-restore get_file_versions: one iteration of "for version in response.get('Versions', [])".
s3bulk_version_step(vs, version) ==
    ListAppend(vs, version.Key,
               [version_id |-> version.VersionId,
                file_name |-> version.Key,
                timestamp |-> version.LastModified,
                size |-> version.Size,
                is_latest |-> version.IsLatest,
                is_delete_marker |-> FALSE])

\* s3-bulk-restore get_file_versions: one iteration of "for marker in response.get('DeleteMarkers', [])".
s3bulk_marker_step(vs, marker) ==
    ListAppend(vs, marker.Key,
               [version_id |-> marker.VersionId,
                file_name |-> marker.Key,
                timestamp |-> marker.LastModified,
                size |-> 0,
                is_latest |-> marker.IsLatest,
                is_delete_marker |-> TRUE])

\* Mutant: the delete markers of a response are appended before its versions.
s3bulk_process_response_markers_first(vs, response) ==
    FoldSeq(s3bulk_version_step,
            FoldSeq(s3bulk_marker_step, vs, response.DeleteMarkers),
            response.Versions)

\* s3-bulk-restore get_file_versions: one response, its Versions and then its DeleteMarkers.
s3bulk_process_response(vs, response) ==
    FoldSeq(s3bulk_marker_step,
            FoldSeq(s3bulk_version_step, vs, response.Versions),
            response.DeleteMarkers)

\* Mutant: the loop breaks after the first response, truncated or not.
s3bulk_last_page_always(response) == TRUE

\* s3-bulk-restore get_file_versions: "if not response.get('IsTruncated'): break".
s3bulk_last_page(response) == ~response.IsTruncated

\* s3-bulk-restore get_file_versions: the pagination markers for the next request.
s3bulk_next_params(p, response) ==
    [KeyMarker |-> response.NextKeyMarker,
     VersionIdMarker |-> response.NextVersionIdMarker] @@ p

\* s3-bulk-restore get_file_versions: one turn of the "while True" paging loop.
s3bulk_get_file_versions ==
    /\ pc = "listing"
    /\ script = "s3-bulk-restore"
    /\ \E outcome \in ListOutcomes, n \in 1..MaxPageSize :
          /\ calls' = Append(calls, ListCall(params, outcome))
          /\ IF outcome # "ok"
             THEN /\ pc' = on_client_error(outcome)
                  /\ UNCHANGED <<params, versions>>
             ELSE LET response == ListObjectVersions(store, params, n)
                  IN /\ versions' = s3bulk_process_response(versions, response)
                     /\ IF s3bulk_last_page(response)
                        THEN /\ pc' = "collected"
                             /\ params' = params
                        ELSE /\ pc' = "listing"
                             /\ params' = s3bulk_next_params(params, response)
    /\ UNCHANGED <<earlier_runs, is_latest,
                   script, args, store, restorable_files, files, latest_versions, totals,
                   confirm, dry_run, idx, restored, failed, out>>

\* b2-bulk-restore get_file_versions: one iteration of "for file_info, _ in bucket.ls(...)".
b2_file_step(vs, file_info) ==
    LET file_name == file_info.file_name
    IN ListAppend(vs, file_name,
                  [file_id |-> file_info.id_,
                   file_name |-> file_name,
                   timestamp |-> file_info.upload_timestamp,
                   action |-> IF file_info.action = "hide" THEN "hide" ELSE "upload",
                   size |-> file_info.size])

\* b2-bulk-restore get_file_versions: the whole listing; any exception exits with status 1.
b2_get_file_versions ==
    /\ pc = "listing"
    /\ script = "b2-bulk-restore"
    /\ \E outcome \in {"ok", "fail"} :
          /\ calls' = Append(calls, Call("ls", None, None, outcome))
          /\ IF outcome = "ok"
             THEN /\ versions' = FoldSeq(b2_file_step, versions, BucketLs(store))
                  /\ pc' = "collected"
             ELSE /\ versions' = versions
                  /\ pc' = "exit1"
    /\ UNCHANGED <<earlier_runs, is_latest,
                   script, args, store, params, restorable_files, files, latest_versions,
                   totals, confirm, dry_run, idx, restored, failed, out>>

(***************************************************************************)
(* Live-State Classifier of the bulk scripts.                              *)
(***************************************************************************)
\* Mutant: a descending sort that puts a record in front of the records of equal timestamp.
RECURSIVE InsertByTimestampDesc_ties_reversed(_, _)
InsertByTimestampDesc_ties_reversed(sorted, x) ==
    IF sorted = << >>
    THEN <<x>>
    ELSE IF Head(sorted).timestamp > x.timestamp
         THEN <<Head(sorted)>> \o InsertByTimestampDesc_ties_reversed(Tail(sorted), x)
         ELSE <<x>> \o sorted


\* Python's sorted() is stable, also under reverse=True: records with equal timestamps
\* keep their order.  x goes behind every record that is not older than x.
RECURSIVE InsertByTimestampDesc(_, _)
InsertByTimestampDesc(sorted, x) ==
    IF sorted = << >>
    THEN <<x>>
    ELSE IF Head(sorted).timestamp >= x.timestamp
         THEN <<Head(sorted)>> \o InsertByTimestampDesc(Tail(sorted), x)
         ELSE <<x>> \o sorted

\* Mutant: reverse=True is missing, the list is sorted oldest first.
RECURSIVE InsertByTimestampAsc(_, _)
InsertByTimestampAsc(sorted, x) ==
    IF sorted = << >>
    THEN <<x>>
    ELSE IF Head(sorted).timestamp <= x.timestamp
         THEN <<Head(sorted)>> \o InsertByTimestampAsc(Tail(sorted), x)
         ELSE <<x>> \o sorted
s3bulk_sorted_versions_ascending(file_versions) ==
    FoldSeq(InsertByTimestampAsc, << >>, file_versions)

\* s3-bulk-restore: sorted(file_versions, key=lambda x: x['timestamp'], reverse=True)
s3bulk_sorted_versions(file_versions) ==
    FoldSeq(InsertByTimestampDesc, << >>, file_versions)

\* b2-bulk-restore: sorted(file_versions, key=lambda x: x['timestamp'], reverse=True)
b2_sorted_versions(file_versions) ==
    FoldSeq(InsertByTimestampDesc, << >>, file_versions)

\* Index of the first record of a list that satisfies Test (0: none).
FirstIndex(seq, Test(_)) ==
    LET hits == {i \in 1..Len(seq) : Test(seq[i])}
    IN IF hits = {} THEN 0 ELSE CHOOSE i \in hits : \A j \in hits : i <= j

\* Mutant: "total_size = ..." in place of "total_size += ...".
s3bulk_classify_step_last_size(vs, acc, file_name) ==
    LET sorted_versions == s3bulk_sorted_versions(DictGet(vs, file_name))
        live == FirstIndex(sorted_versions, LAMBDA v : ~v.is_delete_marker)
    IN IF sorted_versions = << >> \/ ~sorted_versions[1].is_delete_marker
       THEN acc
       ELSE IF live = 0
       THEN acc
       ELSE [latest_versions |-> DictSet(acc.latest_versions, file_name, sorted_versions[live]),
             total_size |-> sorted_versions[live].size]

\* s3-bulk-restore get_latest_live_versions: one iteration of "for file_name, file_versions".
s3bulk_classify_step(vs, acc, file_name) ==
    LET sorted_versions == s3bulk_sorted_versions(DictGet(vs, file_name))
        live == FirstIndex(sorted_versions, LAMBDA v : ~v.is_delete_marker)
    IN IF sorted_versions = << >> \/ ~sorted_versions[1].is_delete_marker
       THEN acc
       ELSE IF live = 0
       THEN acc
       ELSE [latest_versions |-> DictSet(acc.latest_versions, file_name, sorted_versions[live]),
             total_size |-> acc.total_size + sorted_versions[live].size]

\* s3-bulk-restore get_latest_live_versions(versions) -> latest_versions, total_size
s3bulk_get_latest_live_versions(vs) ==
    FoldSeq(LAMBDA acc, file_name : s3bulk_classify_step(vs, acc, file_name),
            [latest_versions |-> DictEmpty, total_size |-> 0],
            vs.keys)

\* b2-bulk-restore get_latest_live_versions: one iteration of "for file_name, file_versions".
b2_classify_step(vs, acc, file_name) ==
    LET sorted_versions == b2_sorted_versions(DictGet(vs, file_name))
        live == FirstIndex(sorted_versions, LAMBDA v : v.action = "upload")
    IN IF sorted_versions # << >> /\ sorted_versions[1].action # "hide"
       THEN acc
       ELSE IF live = 0
       THEN acc
       ELSE [latest_versions |-> DictSet(acc.latest_versions, file_name, sorted_versions[live]),
             total_size |-> acc.total_size + sorted_versions[live].size]

\* b2-bulk-restore get_latest_live_versions(versions) -> latest_versions, total_size
b2_get_latest_live_versions(vs) ==
    FoldSeq(LAMBDA acc, file_name : b2_classify_step(vs, acc, file_name),
            [latest_versions |-> DictEmpty, total_size |-> 0],
            vs.keys)

\* main() of the bulk scripts between listing and prompt: "if not versions: return",
\* then the classification.
Classify ==
    /\ pc = "collected"
    /\ script \in BulkScripts
    /\ IF DictLen(versions) = 0
       THEN /\ pc' = "returned"
            /\ UNCHANGED <<latest_versions, totals>>
       ELSE LET r == IF script = "s3-bulk-restore"
                     THEN s3bulk_get_latest_live_versions(versions)
                     ELSE b2_get_latest_live_versions(versions)
            IN /\ latest_versions' = r.latest_versions
               /\ totals' = [totals EXCEPT !.total_size = r.total_size]
               /\ pc' = "planned"
    /\ UNCHANGED <<earlier_runs, is_latest,
                   script, args, store, params, versions, restorable_files, files,
                   confirm, dry_run, idx, restored, failed, calls, out>>

(***************************************************************************)
(* main(): empty plan, byte totals, confirmation prompt, call of the       *)
(* executor.                                                               *)
(***************************************************************************)
Plan == IF script \in BulkScripts THEN latest_versions ELSE files

\* sum(info[field] for info in files.values())
SumField(d, field) ==
    FoldSeq(LAMBDA acc, k : acc + d.val[k][field], 0, d.keys)

\* Mutant: the reversion prompt takes the same "yes" as the delete-marker prompt.
s3vr_confirmed_any_yes(restore_previous, input) == ~(Lower(input) # "yes")

\* s3-version-restore main(): does the operator's input let the run go on?
s3vr_confirmed(restore_previous, input) ==
    IF restore_previous
    THEN ~(input # "PERMANENTLY DELETE VERSIONS")
    ELSE ~(Lower(input) # "yes")

\* s3-restore-deleted main(): does the operator's input let the run go on?
s3rd_confirmed(input) == ~(Lower(input) # "yes")

\* s3-bulk-restore main(): does the operator's input let the run go on?
s3bulk_confirmed(input) == ~(Lower(input) # "yes")

\* b2-bulk-restore main(): does the operator's input let the run go on?
b2_confirmed(input) == ~(Lower(input) # "yes")

confirmed(input) ==
    CASE script = "s3-version-restore" ->
            s3vr_confirmed(args.restore_previous_versions, input)
      [] script = "s3-restore-deleted" -> s3rd_confirmed(input)
      [] script = "s3-bulk-restore" -> s3bulk_confirmed(input)
      [] OTHER -> b2_confirmed(input)

\* s3-version-restore / s3-restore-deleted main(): the totals printed before the prompt.
plan_totals ==
    IF script \in BulkScripts
    THEN totals
    ELSE IF script = "s3-version-restore" /\ args.restore_previous_versions
    THEN [totals EXCEPT !.total_current_size = SumField(files, "current_size"),
                        !.total_previous_size = SumField(files, "previous_size")]
    ELSE [totals EXCEPT !.total_size = SumField(files, "size")]

\* Mutant: the "if not files: return" is missing.
not_files_skipped == FALSE

\* s3-version-restore / s3-restore-deleted main(): "if not files: ... return".
not_files == script \notin BulkScripts /\ DictLen(files) = 0

\* main() from the plan to the call of the executor: "if not files: return" (not in the
\* bulk scripts), the totals, and under --execute the prompt.
Confirm ==
    /\ pc = "planned"
    /\ IF not_files
       THEN /\ pc' = "returned"
            /\ UNCHANGED <<totals, confirm, dry_run>>
       ELSE /\ totals' = plan_totals
            /\ IF args.execute
               THEN \E input \in Inputs :
                       /\ confirm' = input
                       /\ IF confirmed(input)
                          THEN /\ pc' = "execute"
                               /\ dry_run' = ~args.execute
                          ELSE /\ pc' = "returned"
                               /\ dry_run' = dry_run
               ELSE /\ confirm' = confirm
                    /\ pc' = "execute"
                    /\ dry_run' = ~args.execute
    /\ UNCHANGED <<earlier_runs, is_latest,
                   script, args, store, params, versions, restorable_files, files,
                   latest_versions, idx, restored, failed, calls, out>>

(***************************************************************************)
(* Restore Executor: one plan entry per step.  A step yields what it       *)
(* prints in a dry run, the request it issues, the store after it and the  *)
(* increments of the two counters.  The printed fields are the values      *)
(* handed to format_size / format_timestamp.                               *)
(***************************************************************************)
Nothing(st) ==
    [out |-> << >>, calls |-> << >>, store |-> st, restored |-> 0, failed |-> 0]

\* Mutant: the delete is answered with success but the version stays in the bucket.
s3vr_restore_step_keeps_version(st, file_name, info, restore_previous, dry, verbose, outcome) ==
    IF dry
    THEN Nothing(st)
    ELSE LET version_id == IF restore_previous THEN info.current_version_id
                                               ELSE info.delete_marker_id
         IN IF outcome = "ok"
            THEN [Nothing(st) EXCEPT
                    !.calls = <<Call("delete_object", file_name, version_id, outcome)>>,
                    !.restored = 1]
            ELSE [Nothing(st) EXCEPT
                    !.calls = <<Call("delete_object", file_name, version_id, outcome)>>,
                    !.failed = 1]

\* Mutant: the request names the bucket's first key, not the entry's.
s3vr_restore_step_first_key(st, file_name, info, restore_previous, dry, verbose, outcome) ==
    IF dry
    THEN Nothing(st)
    ELSE LET version_id == IF restore_previous THEN info.current_version_id
                                               ELSE info.delete_marker_id
         IN IF outcome = "ok"
            THEN [Nothing(st) EXCEPT
                    !.calls = <<Call("delete_object", Keys[1], version_id, outcome)>>,
                    !.store = DeleteVersion(st, Keys[1], version_id),
                    !.restored = 1]
            ELSE [Nothing(st) EXCEPT
                    !.calls = <<Call("delete_object", Keys[1], version_id, outcome)>>,
                    !.failed = 1]


\* Mutant: the except branch lacks "failed += 1".
s3vr_restore_step_uncounted(st, file_name, info, restore_previous, dry, verbose, outcome) ==
    IF dry
    THEN Nothing(st)
    ELSE LET version_id == IF restore_previous THEN info.current_version_id
                                               ELSE info.delete_marker_id
         IN IF outcome = "ok"
            THEN [Nothing(st) EXCEPT
                    !.calls = <<Call("delete_object", file_name, version_id, outcome)>>,
                    !.store = DeleteVersion(st, file_name, version_id),
                    !.restored = 1]
            ELSE [Nothing(st) EXCEPT
                    !.calls = <<Call("delete_object", file_name, version_id, outcome)>>]

\* s3-version-restore restore_versions: one iteration of "for file_name, info".
s3vr_restore_step(st, file_name, info, restore_previous, dry, verbose, outcome) ==
    IF dry
    THEN IF verbose
         THEN [Nothing(st) EXCEPT !.out =
                 IF restore_previous
                 THEN <<[file_name |-> file_name,
                         current_modified |-> info.current_modified,
                         current_size |-> info.current_size,
                         previous_modified |-> info.previous_modified,
                         previous_size |-> info.previous_size]>>
                 ELSE <<[file_name |-> file_name,
                         deleted_at |-> info.deleted_at,
                         size |-> info.size,
                         last_modified |-> info.last_modified]>>]
         ELSE Nothing(st)
    ELSE LET version_id == IF restore_previous THEN info.current_version_id
                                               ELSE info.delete_marker_id
         IN IF outcome = "ok"
            THEN [Nothing(st) EXCEPT
                    !.calls = <<Call("delete_object", file_name, version_id, outcome)>>,
                    !.store = DeleteVersion(st, file_name, version_id),
                    !.restored = 1]
            ELSE [Nothing(st) EXCEPT
                    !.calls = <<Call("delete_object", file_name, version_id, outcome)>>,
                    !.failed = 1]

\* Mutant: the version removed is the entry's previous_version_id, not its delete marker.
s3rd_restore_step_deletes_target(st, file_name, info, dry, verbose, outcome) ==
    IF dry
    THEN Nothing(st)
    ELSE IF outcome = "ok"
         THEN [Nothing(st) EXCEPT
                 !.calls = <<Call("delete_object", file_name, info.previous_version_id, outcome)>>,
                 !.store = DeleteVersion(st, file_name, info.previous_version_id),
                 !.restored = 1]
         ELSE [Nothing(st) EXCEPT
                 !.calls = <<Call("delete_object", file_name, info.previous_version_id, outcome)>>,
                 !.failed = 1]

\* s3-restore-deleted restore_versions: one iteration of "for file_name, info".
s3rd_restore_step(st, file_name, info, dry, verbose, outcome) ==
    IF dry
    THEN IF verbose
         THEN [Nothing(st) EXCEPT !.out =
                 <<[file_name |-> file_name,
                    deleted_at |-> info.deleted_at,
                    size |-> info.size,
                    last_modified |-> info.last_modified]>>]
         ELSE Nothing(st)
    ELSE IF outcome = "ok"
         THEN [Nothing(st) EXCEPT
                 !.calls = <<Call("delete_object", file_name, info.delete_marker_id, outcome)>>,
                 !.store = DeleteVersion(st, file_name, info.delete_marker_id),
                 !.restored = 1]
         ELSE [Nothing(st) EXCEPT
                 !.calls = <<Call("delete_object", file_name, info.delete_marker_id, outcome)>>,
                 !.failed = 1]

\* Mutant: the dry run describes every entry, verbose or not.
s3bulk_restore_step_always_describes(st, file_name, version, dry, verbose, outcome) ==
    IF dry
    THEN [Nothing(st) EXCEPT !.out =
            <<[file_name |-> file_name,
               timestamp |-> version.timestamp,
               size |-> version.size]>>]
    ELSE IF outcome = "ok"
         THEN [Nothing(st) EXCEPT
                 !.calls = <<Call("copy_object", file_name, version.version_id, outcome)>>,
                 !.store = CopyVersion(st, file_name, version.version_id),
                 !.restored = 1]
         ELSE [Nothing(st) EXCEPT
                 !.calls = <<Call("copy_object", file_name, version.version_id, outcome)>>,
                 !.failed = 1]


\* s3-bulk-restore restore_versions: one iteration of "for file_name, version".
s3bulk_restore_step(st, file_name, version, dry, verbose, outcome) ==
    IF dry
    THEN IF verbose
         THEN [Nothing(st) EXCEPT !.out =
                 <<[file_name |-> file_name,
                    timestamp |-> version.timestamp,
                    size |-> version.size]>>]
         ELSE Nothing(st)
    ELSE IF outcome = "ok"
         THEN [Nothing(st) EXCEPT
                 !.calls = <<Call("copy_object", file_name, version.version_id, outcome)>>,
                 !.store = CopyVersion(st, file_name, version.version_id),
                 !.restored = 1]
         ELSE [Nothing(st) EXCEPT
                 !.calls = <<Call("copy_object", file_name, version.version_id, outcome)>>,
                 !.failed = 1]

\* Mutant: a failed copy is tried a second time before it is counted.
b2_unhide_step_retry(st, file_name, version, dry, verbose, outcome) ==
    IF dry
    THEN Nothing(st)
    ELSE IF outcome = "ok"
         THEN [Nothing(st) EXCEPT
                 !.calls = <<Call("copy", file_name, version.file_id, outcome)>>,
                 !.store = CopyVersion(st, file_name, version.file_id),
                 !.restored = 1]
         ELSE [Nothing(st) EXCEPT
                 !.calls = <<Call("copy", file_name, version.file_id, outcome),
                             Call("copy", file_name, version.file_id, outcome)>>,
                 !.failed = 1]

\* Mutant: the "elif dry_run: continue" is missing, so a quiet dry run falls through.
b2_unhide_step_no_elif(st, file_name, version, dry, verbose, outcome) ==
    IF dry /\ verbose
    THEN [Nothing(st) EXCEPT !.out =
            <<[file_name |-> file_name,
               size |-> version.size,
               timestamp |-> version.timestamp]>>]
    ELSE IF outcome = "ok"
         THEN [Nothing(st) EXCEPT
                 !.calls = <<Call("copy", file_name, version.file_id, outcome)>>,
                 !.store = CopyVersion(st, file_name, version.file_id),
                 !.restored = 1]
         ELSE [Nothing(st) EXCEPT
                 !.calls = <<Call("copy", file_name, version.file_id, outcome)>>,
                 !.failed = 1]

\* b2-bulk-restore unhide_versions: one iteration of "for file_name, version".
b2_unhide_step(st, file_name, version, dry, verbose, outcome) ==
    IF dry /\ verbose
    THEN [Nothing(st) EXCEPT !.out =
            <<[file_name |-> file_name,
               size |-> version.size,
               timestamp |-> version.timestamp]>>]
    ELSE IF dry
    THEN Nothing(st)
    ELSE IF outcome = "ok"
         THEN [Nothing(st) EXCEPT
                 !.calls = <<Call("copy", file_name, version.file_id, outcome)>>,
                 !.store = CopyVersion(st, file_name, version.file_id),
                 !.restored = 1]
         ELSE [Nothing(st) EXCEPT
                 !.calls = <<Call("copy", file_name, version.file_id, outcome)>>,
                 !.failed = 1]

executor_step(file_name, info, outcome) ==
    CASE script = "s3-version-restore" ->
            s3vr_restore_step(store, file_name, info, args.restore_previous_versions,
                              dry_run, args.verbose, outcome)
      [] script = "s3-restore-deleted" ->
            s3rd_restore_step(store, file_name, info, dry_run, args.verbose, outcome)
      [] script = "s3-bulk-restore" ->
            s3bulk_restore_step(store, file_name, info, dry_run, args.verbose, outcome)
      [] OTHER ->
            b2_unhide_step(store, file_name, info, dry_run, args.verbose, outcome)

\* The executor's loop: the next entry of the plan, in the dict's order.
Restore ==
    /\ pc = "execute"
    /\ idx < DictLen(Plan)
    /\ \E outcome \in MutationOutcomes :
          LET file_name == Plan.keys[idx + 1]
              step == executor_step(file_name, DictGet(Plan, file_name), outcome)
          IN /\ out' = out \o step.out
             /\ calls' = calls \o step.calls
             /\ store' = step.store
             /\ restored' = restored + step.restored
             /\ failed' = failed + step.failed
    /\ idx' = idx + 1
    /\ UNCHANGED <<earlier_runs, is_latest,
                   script, args, pc, params, versions, restorable_files, files,
                   latest_versions, totals, confirm, dry_run>>

\* The loop is over: the summary is printed (execute mode) and main() returns.
RestoreDone ==
    /\ pc = "execute"
    /\ idx = DictLen(Plan)
    /\ pc' = "done"
    /\ UNCHANGED <<earlier_runs, is_latest,
                   script, args, store, params, versions, restorable_files, files,
                   latest_versions, totals, confirm, dry_run, idx, restored, failed,
                   calls, out>>

Next ==
    \/ Connect
    \/ CheckVersioning
    \/ get_restorable_files
    \/ s3bulk_get_file_versions
    \/ b2_get_file_versions
    \/ Classify
    \/ Confirm
    \/ Restore
    \/ RestoreDone

Spec == Init /\ [][Next]_vars

(***************************************************************************)
(* get_latest_live_versions as a function of its argument: the collected   *)
(* history is any dict of record lists, in any insertion order and with    *)
(* any timestamps, equal ones included.                                    *)
(***************************************************************************)
\* The i-th record appended to key k's list, in the form the script's collector builds.
CollectedRecord(sc, k, i, marker, ts) ==
    IF sc = "s3-bulk-restore"
    THEN [version_id |-> VersionIdOf(k, i),
          file_name |-> k,
          timestamp |-> ts,
          size |-> IF marker THEN 0 ELSE SizeOf(k, i),
          is_latest |-> FALSE,
          is_delete_marker |-> marker]
    ELSE [file_id |-> VersionIdOf(k, i),
          file_name |-> k,
          timestamp |-> ts,
          action |-> IF marker THEN "hide" ELSE "upload",
          size |-> IF marker THEN 0 ELSE SizeOf(k, i)]

CollectedLists(sc, k, n) ==
    {[i \in 1..n |-> CollectedRecord(sc, k, i, kinds[i], ts[i])] :
        kinds \in [1..n -> BOOLEAN], ts \in [1..n -> 1..MaxVersions]}

\* The dict with the keys, in transport order, whose list is not empty.
CollectedDict(lists) ==
    LET present == SelectSeq(Keys, LAMBDA k : lists[k] # << >>)
    IN [keys |-> present,
        val |-> [k \in {present[i] : i \in 1..Len(present)} |-> lists[k]]]

CollectedDicts(sc) ==
    UNION {{CollectedDict([A |-> la, B |-> lb]) :
                la \in CollectedLists(sc, "A", n[1]), lb \in CollectedLists(sc, "B", n[2])} :
            n \in {m \in (0..MaxVersions) \X (0..MaxVersions) : m[1] + m[2] <= MaxRecords}}

InitClassify ==
    /\ script \in BulkScripts
    /\ args = [execute |-> FALSE, verbose |-> FALSE, restore_previous_versions |-> FALSE]
    /\ store = [k \in KeySet |-> << >>]
    /\ is_latest = LatestFlags(store)
    /\ pc = "collected"
    /\ params = [Bucket |-> BucketName]
    /\ versions \in CollectedDicts(script)
    /\ restorable_files = DictEmpty
    /\ files = DictEmpty
    /\ latest_versions = DictEmpty
    /\ totals = [total_size |-> 0, total_current_size |-> 0, total_previous_size |-> 0]
    /\ confirm = None
    /\ dry_run = TRUE
    /\ idx = 0
    /\ restored = 0
    /\ failed = 0
    /\ calls = << >>
    /\ out = << >>
    /\ earlier_runs = << >>

NextClassify == Classify

SpecClassify == InitClassify /\ [][NextClassify]_vars

(***************************************************************************)
(* get_restorable_files as a function of the listing it is given: any      *)
(* history, listed newest first, with any IsLatest flags, self-consistent  *)
(* or not, cut into pages in any way.                                      *)
(***************************************************************************)
FlagSets(st) ==
    {f \in [KeySet -> UNION {[1..n -> BOOLEAN] : n \in 0..MaxVersions}] :
        \A k \in KeySet : DOMAIN f[k] = 1..Len(st[k])}

InitFlags ==
    /\ script \in {"s3-version-restore", "s3-restore-deleted"}
    /\ args \in {a \in ArgSets :
                    /\ ~a.execute
                    /\ ~a.verbose
                    /\ a.restore_previous_versions => script = "s3-version-restore"}
    /\ store \in Stores
    /\ is_latest \in FlagSets(store)
    /\ pc = "listing"
    /\ params = [Bucket |-> BucketName]
    /\ versions = DictEmpty
    /\ restorable_files = DictEmpty
    /\ files = DictEmpty
    /\ latest_versions = DictEmpty
    /\ totals = [total_size |-> 0, total_current_size |-> 0, total_previous_size |-> 0]
    /\ confirm = None
    /\ dry_run = TRUE
    /\ idx = 0
    /\ restored = 0
    /\ failed = 0
    /\ calls = << >>
    /\ out = << >>
    /\ earlier_runs = << >>

NextFlags == get_restorable_files

SpecFlags == InitFlags /\ [][NextFlags]_vars


(***************************************************************************)
(* The operator runs s3-version-restore again: a new invocation of main()  *)
(* with the same command line on the bucket as the earlier invocation left *)
(* it.  A new process starts from the state after argument parsing; the    *)
(* transport flags the newest record of each key as latest.                *)
(***************************************************************************)
MaxRuns == 2         \* invocations in a row

Reinvoke ==
    /\ pc \in {"done", "returned", "exit1", "raised"}
    /\ Len(earlier_runs) + 1 < MaxRuns
    /\ earlier_runs' = Append(earlier_runs, calls)
    /\ is_latest' = LatestFlags(store)
    /\ pc' = "start"
    /\ params' = [Bucket |-> BucketName]
    /\ versions' = DictEmpty
    /\ restorable_files' = DictEmpty
    /\ files' = DictEmpty
    /\ latest_versions' = DictEmpty
    /\ totals' = [total_size |-> 0, total_current_size |-> 0, total_previous_size |-> 0]
    /\ confirm' = None
    /\ dry_run' = TRUE
    /\ idx' = 0
    /\ restored' = 0
    /\ failed' = 0
    /\ calls' = << >>
    /\ out' = << >>
    /\ UNCHANGED <<script, args, store>>

InitRerun ==
    /\ script = "s3-version-restore"
    /\ args \in {a \in ArgSets : a.execute /\ ~a.verbose}
    /\ store \in Stores
    /\ is_latest = LatestFlags(store)
    /\ pc = "start"
    /\ params = [Bucket |-> BucketName]
    /\ versions = DictEmpty
    /\ restorable_files = DictEmpty
    /\ files = DictEmpty
    /\ latest_versions = DictEmpty
    /\ totals = [total_size |-> 0, total_current_size |-> 0, total_previous_size |-> 0]
    /\ confirm = None
    /\ dry_run = TRUE
    /\ idx = 0
    /\ restored = 0
    /\ failed = 0
    /\ calls = << >>
    /\ out = << >>
    /\ earlier_runs = << >>

NextRerun ==
    \/ Connect
    \/ CheckVersioning
    \/ get_restorable_files
    \/ Confirm
    \/ Restore
    \/ RestoreDone
    \/ Reinvoke

SpecRerun == InitRerun /\ [][NextRerun]_vars


(***************************************************************************)
(* s3-bulk-restore's collector and classifier over buckets in which        *)
(* records of a key may carry equal LastModified timestamps (the store     *)
(* lists a key's records from newest to oldest, tied ones in either        *)
(* order), paged in any way.                                               *)
(***************************************************************************)
\* Timestamps for the n records of a listed history, newest first, ties allowed.
TiedTimestamps(n) ==
    {ts \in [1..n -> 1..MaxVersions] : \A i \in 1..n, j \in 1..n : i < j => ts[i] >= ts[j]}

Retimed(h, ts) == [i \in 1..Len(h) |-> [h[i] EXCEPT !.LastModified = ts[i]]]

TiedHistories(k) ==
    UNION {{Retimed(HistoryOf(k, kinds), ts) :
                kinds \in [1..n -> BOOLEAN], ts \in TiedTimestamps(n)} :
             n \in 0..MaxVersions}

TiedStores ==
    UNION {{[A |-> ha, B |-> hb] :
                ha \in {h \in TiedHistories("A") : Len(h) = n[1]},
                hb \in {h \in TiedHistories("B") : Len(h) = n[2]}} :
             n \in {m \in (0..MaxVersions) \X (0..MaxVersions) : m[1] + m[2] <= MaxRecords}}

InitTies ==
    /\ script = "s3-bulk-restore"
    /\ args = [execute |-> FALSE, verbose |-> FALSE, restore_previous_versions |-> FALSE]
    /\ store \in TiedStores
    /\ is_latest = LatestFlags(store)
    /\ pc = "listing"
    /\ params = [Bucket |-> BucketName]
    /\ versions = DictEmpty
    /\ restorable_files = DictEmpty
    /\ files = DictEmpty
    /\ latest_versions = DictEmpty
    /\ totals = [total_size |-> 0, total_current_size |-> 0, total_previous_size |-> 0]
    /\ confirm = None
    /\ dry_run = TRUE
    /\ idx = 0
    /\ restored = 0
    /\ failed = 0
    /\ calls = << >>
    /\ out = << >>
    /\ earlier_runs = << >>

NextTies ==
    \/ s3bulk_get_file_versions
    \/ Classify

SpecTies == InitTies /\ [][NextTies]_vars


(***************************************************************************)
(* Properties.                                                             *)
(***************************************************************************)
MutationOps == {"copy_object", "delete_object", "copy"}
ListOps == {"list_object_versions", "ls"}
MutationCalls == SelectSeq(calls, LAMBDA c : c.op \in MutationOps)
ListCalls == SelectSeq(calls, LAMBDA c : c.op \in ListOps)
ExecutorCalled == pc \in {"execute", "done"}
Reversion == script = "s3-version-restore" /\ args.restore_previous_versions
MarkerRemoval ==
    \/ script = "s3-restore-deleted"
    \/ script = "s3-version-restore" /\ ~args.restore_previous_versions

\* The spellings of "yes" an operator can type.
YesSpellings == {"yes", "Yes", "YES"}

\* The gate of s3-version-restore as the documentation states it.
GatePassed ==
    /\ args.execute
    /\ IF args.restore_previous_versions
       THEN confirm = "PERMANENTLY DELETE VERSIONS"
       ELSE confirm \in YesSpellings

\* C1: in s3-version-restore the executor runs with dry_run = False only after --execute
\* and an input that passed the gate of the policy (the exact phrase under reversion,
\* "yes" in any case under delete-marker removal); a run whose gate did not pass never
\* issues a delete_object request.
C1_GateBeforeApply ==
    script = "s3-version-restore" =>
        /\ (ExecutorCalled /\ ~dry_run) => GatePassed
        /\ ~GatePassed => MutationCalls = << >>

\* C1 witness: a reversion run that passed the gate and deleted a current version.
C1_Witness ==
    /\ Reversion
    /\ pc = "done"
    /\ ~dry_run
    /\ confirm = "PERMANENTLY DELETE VERSIONS"
    /\ restored > 0
    /\ \E i \in 1..Len(calls) : calls[i].op = "delete_object"

\* C2: an executor call with dry_run = True issues no storage mutation and leaves
\* restored = 0 and failed = 0, in all four scripts, whatever the plan and verbose.
C2_DryRunMutatesNothing ==
    (ExecutorCalled /\ dry_run) =>
        /\ MutationCalls = << >>
        /\ restored = 0
        /\ failed = 0

\* C2 witness: a quiet dry run that has walked a plan of two entries.
C2_Witness ==
    /\ pc = "done"
    /\ dry_run
    /\ ~args.verbose
    /\ DictLen(Plan) = 2
    /\ idx = 2

\* The answer get_bucket_versioning gave in this run (None: not asked, or no Status).
VersioningAsked == \E i \in 1..Len(calls) : calls[i].op = "get_bucket_versioning"
VersioningAnswer ==
    LET i == CHOOSE j \in 1..Len(calls) : calls[j].op = "get_bucket_versioning"
    IN calls[i].outcome

\* C10: in the S3 scripts a bucket whose versioning status is absent or unexpected, or
\* whose get_bucket_versioning fails with NotImplemented, ends the run with exit status 1
\* before any listing request and any mutation; only Enabled and Suspended reach the
\* listing.
C10_VersioningRefusal ==
    (script \in S3Scripts /\ VersioningAsked) =>
        /\ VersioningAnswer \in {None, "Disabled", "NotImplemented"} =>
              /\ pc = "exit1"
              /\ ListCalls = << >>
              /\ MutationCalls = << >>
        /\ (pc \in {"listing", "collected", "planned", "execute", "done"}
            \/ ListCalls # << >>) =>
              VersioningAnswer \in {"Enabled", "Suspended"}

\* C10 witness: an S3 run refused for an unexpected status.
C10_Witness ==
    /\ script \in S3Scripts
    /\ VersioningAsked
    /\ VersioningAnswer = "Disabled"
    /\ pc = "exit1"

\* A key's records of one kind, as positions in its history (1 is the newest record).
ContentPositions(h) == {i \in 1..Len(h) : ~h[i].IsDeleteMarker}
MarkerPositions(h) == {i \in 1..Len(h) : h[i].IsDeleteMarker}
\* The n-th position of a set of positions, counted from the newest.
NthPosition(S, n) == CHOOSE i \in S : Cardinality({j \in S : j < i}) = n - 1

\* C3: under delete-marker removal every plan entry's target (id, size, timestamp) is
\* the key's most recent Content record, the first one found scanning from newest to
\* oldest, and the version to remove is the delete marker on top of the history.
C3_MarkerRemovalTargetIsNewestContent ==
    (MarkerRemoval /\ pc = "planned") =>
        \A k \in DictKeySet(files) :
            LET h == store[k]
                info == DictGet(files, k)
                target == h[NthPosition(ContentPositions(h), 1)]
            IN /\ h[1].IsDeleteMarker
               /\ info.delete_marker_id = h[1].VersionId
               /\ info.previous_version_id = target.VersionId
               /\ info.size = target.Size
               /\ info.last_modified = target.LastModified

\* C4 as stated: under reversion every key with at least 2 records whose most recent
\* record is Content has a plan entry whose superseding version is that record and
\* whose target is the second Content record scanning from newest to oldest.
C4_ReversionEveryTwoRecordKey ==
    (Reversion /\ pc = "planned") =>
        \A k \in KeySet :
            LET h == store[k]
            IN (Len(h) >= 2 /\ ~h[1].IsDeleteMarker) =>
                  /\ DictHas(files, k)
                  /\ Cardinality(ContentPositions(h)) >= 2
                  /\ DictGet(files, k).current_version_id = h[1].VersionId
                  /\ DictGet(files, k).previous_version_id =
                        h[NthPosition(ContentPositions(h), 2)].VersionId

\* C4 amended: under reversion every key with at least 2 Content records whose most
\* recent record is Content has a plan entry; its superseding version (id, size) is that
\* current record, its target (id, size) is the second Content record scanning from
\* newest to oldest, and the target is not the superseding version.
C4_ReversionTarget ==
    (Reversion /\ pc = "planned") =>
        \A k \in KeySet :
            LET h == store[k]
            IN (Cardinality(ContentPositions(h)) >= 2 /\ ~h[1].IsDeleteMarker) =>
                  LET target == h[NthPosition(ContentPositions(h), 2)]
                  IN /\ DictHas(files, k)
                     /\ DictGet(files, k).current_version_id = h[1].VersionId
                     /\ DictGet(files, k).current_size = h[1].Size
                     /\ DictGet(files, k).previous_version_id = target.VersionId
                     /\ DictGet(files, k).previous_size = target.Size
                     /\ DictGet(files, k).previous_version_id #
                           DictGet(files, k).current_version_id

\* C4 witness: history B = [(b2, Content, 50B), (b1, Content, 40B)] planned as
\* target b1 (40B), superseding b2 (50B); A, a Content record over a delete marker, is
\* not in the plan.
C4_Witness ==
    /\ Reversion
    /\ pc = "planned"
    /\ Len(store["B"]) = 2
    /\ Len(store["A"]) = 2
    /\ ContentPositions(store["A"]) = {1}
    /\ ~DictHas(files, "A")
    /\ DictHas(files, "B")
    /\ DictGet(files, "B").previous_version_id = "b1"
    /\ DictGet(files, "B").previous_size = 40
    /\ DictGet(files, "B").current_version_id = "b2"
    /\ DictGet(files, "B").current_size = 50

\* The plan has just been built, the bucket is as it was listed.
PlanBuilt == pc = "planned"

\* C9: a key whose only record is one Content version is in no policy's plan, and a
\* key whose records are all hide/delete markers is in no unhide or delete-marker-removal
\* plan; neither is an error: a run is only ever cut short by a failed request.
C9_NoTargetNoEntry ==
    /\ pc = "raised" => \E i \in 1..Len(calls) : calls[i].outcome = "AccessDenied"
    /\ PlanBuilt =>
          \A k \in KeySet :
              LET h == store[k]
              IN /\ (Len(h) = 1 /\ ~h[1].IsDeleteMarker) => ~DictHas(Plan, k)
                 /\ (Len(h) >= 1 /\ ContentPositions(h) = {} /\ ~Reversion) =>
                       ~DictHas(Plan, k)

\* C9 witness: a plan built over a single-Content key and a key of markers only.
C9_Witness ==
    /\ PlanBuilt
    /\ Len(store["A"]) = 1
    /\ ~store["A"][1].IsDeleteMarker
    /\ Len(store["B"]) = 2
    /\ ContentPositions(store["B"]) = {}
    /\ Plan = DictEmpty

\* A collected record of a bulk script: is it a hide / delete marker?
IsMarkerRecord(r) ==
    IF script = "s3-bulk-restore" THEN r.is_delete_marker ELSE r.action = "hide"
CollectedContent(list) == {i \in 1..Len(list) : ~IsMarkerRecord(list[i])}
\* The positions of S that carry the greatest timestamp of S.
Newest(list, S) == {i \in S : \A j \in S : list[j].timestamp <= list[i].timestamp}
\* The first collected of them.
FirstNewest(list, S) == CHOOSE i \in Newest(list, S) : \A j \in Newest(list, S) : i <= j

\* C5 as stated: whatever the insertion order, a key is in the plan iff its record with
\* the greatest timestamp is a marker and it has a Content record, the entry is then the
\* Content record with the greatest timestamp, and a key whose most recent record by
\* timestamp is Content is never in the plan.
C5_PlanFromTimestampsAlone ==
    (pc = "planned" /\ script \in BulkScripts) =>
        \A k \in DictKeySet(versions) :
            LET list == DictGet(versions, k)
                all == 1..Len(list)
                content == CollectedContent(list)
            IN /\ DictHas(latest_versions, k) <=>
                     /\ \A i \in Newest(list, all) : IsMarkerRecord(list[i])
                     /\ content # {}
               /\ DictHas(latest_versions, k) =>
                     \E i \in Newest(list, content) : DictGet(latest_versions, k) = list[i]
               /\ (\E i \in Newest(list, all) : ~IsMarkerRecord(list[i])) =>
                     ~DictHas(latest_versions, k)

\* C5 amended: a key is in the plan iff the first collected of its records with the
\* greatest timestamp is a marker and it has a Content record; the entry is then the
\* first collected of its Content records with the greatest Content timestamp; a key
\* whose first collected newest record is Content is never in the plan.
C5_PlanFromTimestampsAndOrder ==
    (pc = "planned" /\ script \in BulkScripts) =>
        /\ DictKeySet(latest_versions) \subseteq DictKeySet(versions)
        /\ \A k \in DictKeySet(versions) :
              LET list == DictGet(versions, k)
                  all == 1..Len(list)
                  content == CollectedContent(list)
              IN /\ DictHas(latest_versions, k) <=>
                       /\ IsMarkerRecord(list[FirstNewest(list, all)])
                       /\ content # {}
                 /\ DictHas(latest_versions, k) =>
                       DictGet(latest_versions, k) = list[FirstNewest(list, content)]

\* C5 witness: a key collected oldest record first, marker on top by timestamp, planned
\* with its newest Content record, next to a live key that is left out.
C5_Witness ==
    /\ pc = "planned"
    /\ script \in BulkScripts
    /\ DictHas(versions, "A")
    /\ Len(DictGet(versions, "A")) = 3
    /\ DictGet(versions, "A")[1].timestamp = 1
    /\ DictGet(versions, "A")[2].timestamp = 2
    /\ DictGet(versions, "A")[3].timestamp = 3
    /\ CollectedContent(DictGet(versions, "A")) = {1, 2}
    /\ DictHas(latest_versions, "A")
    /\ DictGet(latest_versions, "A") = DictGet(versions, "A")[2]
    /\ DictHas(versions, "B")
    /\ ~DictHas(latest_versions, "B")

FailedCalls == SelectSeq(MutationCalls, LAMBDA c : c.outcome # "ok")
SucceededCalls == SelectSeq(MutationCalls, LAMBDA c : c.outcome = "ok")

\* C6: in an Apply run over a plan of N entries, whichever mutations fail, every entry
\* is attempted, the run does not abort, failed counts exactly the failing mutations and
\* restored the succeeding ones, and restored + failed = N at the end.
C6_FailureIsolation ==
    /\ MutationCalls # << >> => ExecutorCalled
    /\ (ExecutorCalled /\ ~dry_run) =>
          /\ Len(MutationCalls) = idx
          /\ failed = Len(FailedCalls)
          /\ restored = Len(SucceededCalls)
          /\ restored + failed = idx
          /\ (pc = "execute" /\ idx < DictLen(Plan)) => ENABLED Restore
          /\ pc = "done" => restored + failed = DictLen(Plan)

\* C6 witness: the first of two mutations failed with a not-found error, the second
\* was still attempted and succeeded.
C6_Witness ==
    /\ pc = "done"
    /\ ~dry_run
    /\ DictLen(Plan) = 2
    /\ Len(MutationCalls) = 2
    /\ MutationCalls[1].outcome = "NoSuchVersion"
    /\ MutationCalls[2].outcome = "ok"
    /\ restored = 1
    /\ failed = 1

\* The request a policy issues for the plan entry of key k.
PolicyRequest(k) ==
    CASE script = "s3-bulk-restore" ->
            [op |-> "copy_object", Key |-> k, VersionId |-> DictGet(latest_versions, k).version_id]
      [] script = "b2-bulk-restore" ->
            [op |-> "copy", Key |-> k, VersionId |-> DictGet(latest_versions, k).file_id]
      [] Reversion ->
            [op |-> "delete_object", Key |-> k, VersionId |-> DictGet(files, k).current_version_id]
      [] OTHER ->
            [op |-> "delete_object", Key |-> k, VersionId |-> DictGet(files, k).delete_marker_id]

\* C7: in an Apply run exactly one mutation request is issued per plan entry, failed or
\* not, and it is the policy's: a copy of the target Content version onto the same key
\* (bulk scripts), the delete of a delete-marker version (delete-marker removal), the
\* delete of the current Content version (reversion).
C7_OneRequestPerEntry ==
    (ExecutorCalled /\ ~dry_run) =>
        /\ Len(MutationCalls) = idx
        /\ pc = "done" => Len(MutationCalls) = DictLen(Plan)
        /\ \A i \in 1..Len(MutationCalls) :
              LET c == MutationCalls[i]
                  k == Plan.keys[i]
              IN /\ [op |-> c.op, Key |-> c.Key, VersionId |-> c.VersionId] = PolicyRequest(k)
                 /\ \A j \in 1..Len(MutationCalls) : j # i => MutationCalls[j].Key # c.Key
                 /\ script \in BulkScripts => c.VersionId \in ContentIds(store, k)
                 /\ (MarkerRemoval /\ c.outcome # "ok") => c.VersionId \in MarkerIds(store, k)
                 /\ (Reversion /\ c.outcome # "ok") =>
                       /\ c.VersionId = store[k][1].VersionId
                       /\ ~store[k][1].IsDeleteMarker
                 /\ (script \notin BulkScripts /\ c.outcome = "ok") =>
                       c.VersionId \notin AllIds(store, k)

\* C7 witness: a b2 run whose first copy failed and whose second succeeded: two plan
\* entries, two requests.
C7_Witness ==
    /\ script = "b2-bulk-restore"
    /\ pc = "done"
    /\ ~dry_run
    /\ DictLen(Plan) = 2
    /\ Len(MutationCalls) = 2
    /\ MutationCalls[1].outcome # "ok"
    /\ MutationCalls[2].outcome = "ok"

\* The requests a step adds to the log.
NewCalls == SubSeq(calls', Len(calls) + 1, Len(calls'))

\* C8: under the copy policies and delete-marker removal no step of a run removes a
\* Content version: every delete_object names a DeleteMarker record of its key, the
\* copy executors issue no delete, and each key's Content versions after the step
\* include those before it.
C8_ContentPreserved ==
    [][~Reversion =>
          /\ \A k \in KeySet : ContentIds(store, k) \subseteq ContentIds(store', k)
          /\ \A i \in 1..Len(NewCalls) :
                NewCalls[i].op = "delete_object" =>
                    /\ MarkerRemoval
                    /\ NewCalls[i].VersionId \in MarkerIds(store, NewCalls[i].Key)]_vars

\* C8 witness: a delete-marker removal that went through, all Content versions in place.
C8_Witness ==
    /\ MarkerRemoval
    /\ pc = "done"
    /\ ~dry_run
    /\ restored = 2
    /\ \A k \in KeySet : ContentIds(store, k) # {} /\ MarkerIds(store, k) = {}

\* The version a plan entry restores, and the size the store holds for a version.
TargetId(k) ==
    CASE script = "s3-bulk-restore" -> DictGet(latest_versions, k).version_id
      [] script = "b2-bulk-restore" -> DictGet(latest_versions, k).file_id
      [] OTHER -> DictGet(files, k).previous_version_id
StoredSize(k, id) ==
    LET i == CHOOSE j \in 1..Len(store[k]) : store[k][j].VersionId = id
    IN store[k][i].Size
\* The size a Content version of the listed bucket was created with.
CreatedSize(k, id) == SizeOf(k, IdNumber(k, id, 1))
\* Sum of F over the keys of the final plan.
PlanSum(F(_)) == FoldSeq(LAMBDA acc, k : acc + F(k), 0, Plan.keys)
\* The byte totals have been printed.
TotalsReported ==
    \/ pc \in {"execute", "done"}
    \/ script \in BulkScripts /\ pc = "planned"

\* C11: the reported restore total is the sum, over exactly the entries of the final
\* plan, of the size the store holds for the entry's target version; under reversion
\* the to-be-deleted total is the sum of the sizes of the entries' current versions.
C11_ByteTotals ==
    TotalsReported =>
        /\ \A k \in DictKeySet(Plan) : TargetId(k) \in ContentIds(store, k)
        /\ ~Reversion =>
              totals.total_size = PlanSum(LAMBDA k : StoredSize(k, TargetId(k)))
        /\ Reversion =>
              /\ totals.total_previous_size = PlanSum(LAMBDA k : StoredSize(k, TargetId(k)))
              /\ totals.total_current_size =
                    PlanSum(LAMBDA k : CreatedSize(k, DictGet(files, k).current_version_id))
              /\ idx = 0 =>
                    \A k \in DictKeySet(files) :
                        DictGet(files, k).current_version_id = store[k][1].VersionId

\* C11 witness: s3-bulk-restore reports 100 + 50 bytes for a plan of two entries, and a
\* reversion run reports 150 bytes to delete and 120 bytes to restore.
C11_Witness ==
    /\ TotalsReported
    /\ DictLen(Plan) = 2
    /\ \/ script = "s3-bulk-restore" /\ totals.total_size = 150
       \/ /\ Reversion
          /\ totals.total_current_size = 150
          /\ totals.total_previous_size = 120

\* The listing went through and the plan is what the classification made of it.
PlanClassified ==
    \/ pc \in {"planned", "execute", "done"}
    \/ pc = "returned" /\ ListCalls # << >>

\* C12: a run whose classification yields no eligible key issues no storage mutation and
\* ends without an error, with --execute as without; s3-version-restore and
\* s3-restore-deleted return before any prompt is shown.
C12_EmptyPlan ==
    (PlanClassified /\ DictLen(Plan) = 0) =>
        /\ MutationCalls = << >>
        /\ restored = 0
        /\ failed = 0
        /\ pc = "planned" => ENABLED Confirm
        /\ pc = "execute" => ENABLED RestoreDone
        /\ script \notin BulkScripts =>
              /\ pc \in {"planned", "returned"}
              /\ confirm = None

\* C12 witness: s3-restore-deleted --execute over a bucket of live keys returned without
\* a prompt; or a bulk run with --execute walked an empty plan to its end.
C12_Witness ==
    /\ args.execute
    /\ DictLen(Plan) = 0
    /\ RecordCount(store, 1) >= 2
    /\ \/ script = "s3-restore-deleted" /\ pc = "returned" /\ ListCalls # << >>
       \/ script \in BulkScripts /\ pc = "done" /\ ~dry_run

\* The listing of the run, and the page in which its i-th record arrived: a request's
\* cursor names the last record of the page before it.
ListedRecords == Listing(store, 1)
CursorPositions ==
    {i \in 1..Len(ListedRecords) :
        \E c \in 2..Len(ListCalls) :
            /\ ListCalls[c].Key = ListedRecords[i].Key
            /\ ListCalls[c].VersionId = ListedRecords[i].VersionId}
PageOf(i) == 1 + Cardinality({c \in CursorPositions : c < i})
\* The records of key k get_restorable_files looks at under delete-marker removal.
FlaggedMarkers(k) ==
    {i \in 1..Len(ListedRecords) :
        /\ ListedRecords[i].Key = k
        /\ ListedRecords[i].IsDeleteMarker
        /\ ListedRecords[i].IsLatest}
UnflaggedVersions(k) ==
    {i \in 1..Len(ListedRecords) :
        /\ ListedRecords[i].Key = k
        /\ ~ListedRecords[i].IsDeleteMarker
        /\ ~ListedRecords[i].IsLatest}
\* The key's record with the greatest timestamp is a DeleteMarker and it has a Content record.
DeletedByTimestamps(k) ==
    /\ store[k] # << >>
    /\ store[k][1].IsDeleteMarker
    /\ \A i \in 1..Len(store[k]) : store[k][i].LastModified <= store[k][1].LastModified
    /\ ContentPositions(store[k]) # {}

StoreAsListed == SucceededCalls = << >>

\* The position in the listing a request's cursor names (0: a request without cursor).
CursorOf(c) ==
    IF c.Key = None
    THEN 0
    ELSE CHOOSE i \in 1..Len(ListedRecords) :
            /\ ListedRecords[i].Key = c.Key
            /\ ListedRecords[i].VersionId = c.VersionId
\* The cursor the next request of the paging loop will carry.
ParamsCursor ==
    IF "KeyMarker" \in DOMAIN params
    THEN CursorOf([Key |-> params.KeyMarker, VersionId |-> params.VersionIdMarker])
    ELSE 0
\* The version ids collected so far by the bulk collector, over all keys.
CollectedIds ==
    UNION {{DictGet(versions, k)[i].version_id : i \in 1..Len(DictGet(versions, k))} :
              k \in DictKeySet(versions)}
ListedIds(n) == {ListedRecords[i].VersionId : i \in 1..n}
PagingOver == pc \in {"collected", "planned", "execute", "done", "returned"}

\* C14: in s3-bulk-restore the paging loop asks for the next page exactly as long as the
\* last response was truncated: the first request has no cursor, every later request's
\* cursor names the last record of the response before it (what has been collected is
\* the listing up to the cursor, no page skipped), the loop ends only once the whole
\* listing has arrived and then asks no more; the bucket parameter never changes and
\* the only parameters the loop writes are the two markers.
C14_PagingLoop ==
    (script = "s3-bulk-restore" /\ ListCalls # << >> /\ StoreAsListed) =>
        /\ params.Bucket = BucketName
        /\ DOMAIN params \subseteq {"Bucket", "KeyMarker", "VersionIdMarker"}
        /\ CursorOf(ListCalls[1]) = 0
        /\ \A i \in 1..(Len(ListCalls) - 1) :
              /\ ListCalls[i].outcome = "ok"
              /\ CursorOf(ListCalls[i]) < CursorOf(ListCalls[i + 1])
              /\ CursorOf(ListCalls[i + 1]) <= CursorOf(ListCalls[i]) + MaxPageSize
              /\ CursorOf(ListCalls[i + 1]) < Len(ListedRecords)
        /\ ListCalls[Len(ListCalls)].outcome # "ok" => pc \in {"exit1", "raised"}
        /\ pc = "listing" =>
              /\ ParamsCursor > CursorOf(ListCalls[Len(ListCalls)])
              /\ ParamsCursor < Len(ListedRecords)
              /\ CollectedIds = ListedIds(ParamsCursor)
        /\ PagingOver =>
              /\ ListCalls[Len(ListCalls)].outcome = "ok"
              /\ ParamsCursor = CursorOf(ListCalls[Len(ListCalls)])
              /\ CollectedIds = ListedIds(Len(ListedRecords))
              /\ Len(ListedRecords) <= CursorOf(ListCalls[Len(ListCalls)]) + MaxPageSize

\* C14 witness: a listing of four records collected in three pages.
C14_Witness ==
    /\ script = "s3-bulk-restore"
    /\ pc = "collected"
    /\ Len(ListedRecords) = 4
    /\ Len(ListCalls) = 3
    /\ CursorOf(ListCalls[2]) = 1
    /\ CursorOf(ListCalls[3]) = 3

\* The record the s3-bulk-restore collector is to hold for a listed record.
CollectedForm(r) ==
    [version_id |-> r.VersionId,
     file_name |-> r.Key,
     timestamp |-> r.LastModified,
     size |-> IF r.IsDeleteMarker THEN 0 ELSE r.Size,
     is_latest |-> r.IsLatest,
     is_delete_marker |-> r.IsDeleteMarker]
\* How often a record occurs in a list.
Occurrences(list, rec) == Cardinality({i \in 1..Len(list) : list[i] = rec})

\* C15: once s3-bulk-restore's get_file_versions has returned, versions[key] holds, for
\* every key, each Versions and DeleteMarkers record the transport returned for the key
\* exactly once and nothing else, however the records were cut into pages; a key
\* without records has no list.
C15_EveryRecordOnce ==
    (script = "s3-bulk-restore" /\ PagingOver /\ ListCalls # << >> /\ StoreAsListed) =>
        \A k \in KeySet :
            LET listed == KeyListing(store, k)
            IN IF listed = << >>
               THEN ~DictHas(versions, k)
               ELSE /\ DictHas(versions, k)
                    /\ Len(DictGet(versions, k)) = Len(listed)
                    /\ \A i \in 1..Len(listed) :
                          Occurrences(DictGet(versions, k), CollectedForm(listed[i])) = 1

\* C15 witness: key A's three records, a delete marker on top, arrived in two pages or
\* more and were collected in another order than listed.
C15_Witness ==
    /\ script = "s3-bulk-restore"
    /\ pc = "collected"
    /\ Len(ListCalls) >= 2
    /\ Len(store["A"]) = 3
    /\ store["A"][1].IsDeleteMarker
    /\ ~DictGet(versions, "A")[1].is_delete_marker
    /\ Len(DictGet(versions, "A")) = 3

\* The classifier's sorted_versions for a collected list, and where a record was collected.
SortedVersions(list) ==
    IF script = "s3-bulk-restore" THEN s3bulk_sorted_versions(list) ELSE b2_sorted_versions(list)
CollectedAt(list, rec) == CHOOSE i \in 1..Len(list) : list[i] = rec

\* C16: for every key the classifier's sort yields a permutation of the collected
\* records, in non-increasing timestamp order, in which records of equal timestamp keep
\* the order in which they were collected.
C16_StableDescendingSort ==
    script \in BulkScripts =>
        \A k \in DictKeySet(versions) :
            LET list == DictGet(versions, k)
                sorted == SortedVersions(list)
            IN /\ Len(sorted) = Len(list)
               /\ \A i \in 1..Len(list) : Occurrences(sorted, list[i]) = Occurrences(list, list[i])
               /\ \A i, j \in 1..Len(sorted) :
                     i < j =>
                        /\ sorted[i].timestamp >= sorted[j].timestamp
                        /\ sorted[i].timestamp = sorted[j].timestamp =>
                              CollectedAt(list, sorted[i]) < CollectedAt(list, sorted[j])

\* C16 witness: three records collected with timestamps 1, 2, 2 are classified in the
\* order second, third, first.
C16_Witness ==
    /\ script \in BulkScripts
    /\ pc = "planned"
    /\ DictHas(versions, "A")
    /\ Len(DictGet(versions, "A")) = 3
    /\ DictGet(versions, "A")[1].timestamp = 1
    /\ DictGet(versions, "A")[2].timestamp = 2
    /\ DictGet(versions, "A")[3].timestamp = 2
    /\ SortedVersions(DictGet(versions, "A")) =
          <<DictGet(versions, "A")[2], DictGet(versions, "A")[3], DictGet(versions, "A")[1]>>

\* A step that issues a mutation request.
IssuesMutation == \E i \in 1..Len(NewCalls) : NewCalls[i].op \in MutationOps
\* The listing requests of the run, after the step.
ListCallsAfter == SelectSeq(calls', LAMBDA c : c.op \in ListOps)

\* C17: a step issues a mutation request only from the executor, after every listing
\* request was answered and the last page had arrived, and no step of the executor
\* changes the plan or lists again; a run whose listing failed has issued no mutation
\* and has ended (exit status 1 or the error raised).
C17_PlanBeforeMutation ==
    [][/\ IssuesMutation =>
             /\ pc = "execute"
             /\ ListCalls # << >>
             /\ \A i \in 1..Len(ListCalls) : ListCalls[i].outcome = "ok"
             /\ \A i \in 1..Len(NewCalls) : NewCalls[i].op \in MutationOps
             /\ (StoreAsListed /\ script \in S3Scripts) =>
                   Len(ListedRecords) <= CursorOf(ListCalls[Len(ListCalls)]) + MaxPageSize
       /\ pc \in {"execute", "done"} =>
             /\ files' = files
             /\ latest_versions' = latest_versions
             /\ ListCallsAfter = ListCalls
       /\ (\E i \in 1..Len(ListCallsAfter) : ListCallsAfter[i].outcome # "ok") =>
             /\ \A i \in 1..Len(calls') : calls'[i].op \notin MutationOps
             /\ pc' \in {"exit1", "raised"}]_vars

\* C17 witness: an S3 run that needed two listing pages or more has issued its
\* mutations, all of them after the last listing request.
C17_Witness ==
    /\ script \in S3Scripts
    /\ pc = "done"
    /\ Len(ListCalls) >= 2
    /\ Len(MutationCalls) = 2
    /\ calls[Len(calls)].op \in MutationOps
    /\ calls[Len(calls) - 1].op \in MutationOps

\* The record the store holds for a version of a key.
StoredRecord(k, id) ==
    store[k][CHOOSE j \in 1..Len(store[k]) : store[k][j].VersionId = id]
\* What a "Would restore" description says about the target: its timestamp and size.
DescribedTarget(d) ==
    CASE script \in BulkScripts -> [timestamp |-> d.timestamp, size |-> d.size]
      [] Reversion -> [timestamp |-> d.previous_modified, size |-> d.previous_size]
      [] OTHER -> [timestamp |-> d.last_modified, size |-> d.size]
\* The fields of a description that hold a version id.
IdFields == {"version_id", "file_id", "previous_version_id", "current_version_id",
             "delete_marker_id"}

\* C18 as stated: a dry run leaves one description per plan entry, and each carries the
\* key and the target's version id, under reversion also the id of the version to destroy.
C18_DryRunDescribesEveryEntry ==
    (pc = "done" /\ dry_run) =>
        /\ Len(out) = DictLen(Plan)
        /\ \A i \in 1..Len(out) :
              /\ out[i].file_name = Plan.keys[i]
              /\ DOMAIN out[i] \cap IdFields # {}
              /\ Reversion => "current_version_id" \in DOMAIN out[i]

\* C18 amended: a dry run with --verbose emits exactly one description per plan entry,
\* in plan order, carrying the key and the target's timestamp and size (under reversion
\* also the current version's timestamp and size) and no version id; a dry run without
\* --verbose emits no description.
C18_VerboseDryRunDescribes ==
    (ExecutorCalled /\ dry_run) =>
        IF args.verbose
        THEN /\ Len(out) = idx
             /\ pc = "done" => Len(out) = DictLen(Plan)
             /\ \A i \in 1..Len(out) :
                   LET k == Plan.keys[i]
                       target == StoredRecord(k, TargetId(k))
                   IN /\ out[i].file_name = k
                      /\ DescribedTarget(out[i]) =
                            [timestamp |-> target.LastModified, size |-> target.Size]
                      /\ DOMAIN out[i] \cap IdFields = {}
                      /\ Reversion =>
                            /\ out[i].current_modified = store[k][1].LastModified
                            /\ out[i].current_size = store[k][1].Size
        ELSE out = << >>

\* C18 witness: a verbose dry run of a reversion over two entries has described both;
\* or a quiet dry run has walked two entries and described none.
C18_Witness ==
    /\ pc = "done"
    /\ dry_run
    /\ DictLen(Plan) = 2
    /\ \/ Reversion /\ args.verbose /\ Len(out) = 2
       \/ script = "b2-bulk-restore" /\ ~args.verbose /\ out = << >>

\* C19: under reversion, once the delete of a key's current version has succeeded, the
\* key's most recent remaining record is the plan's target (previous_version_id),
\* whatever the history for which the key was planned.
C19_ReversionExposesTarget ==
    (Reversion /\ ExecutorCalled) =>
        \A i \in 1..Len(MutationCalls) :
            LET k == MutationCalls[i].Key
            IN MutationCalls[i].outcome = "ok" =>
                  /\ store[k] # << >>
                  /\ store[k][1].VersionId = DictGet(files, k).previous_version_id

\* C20: under delete-marker removal, once the delete of a key's planned delete marker
\* has succeeded, the key is live: its most recent remaining record is a Content
\* record, whatever the history for which the key was planned.
C20_MarkerRemovalMakesLive ==
    (MarkerRemoval /\ ExecutorCalled) =>
        \A i \in 1..Len(MutationCalls) :
            LET k == MutationCalls[i].Key
            IN MutationCalls[i].outcome = "ok" =>
                  /\ store[k] # << >>
                  /\ ~store[k][1].IsDeleteMarker

\* The deletes of versions of key k that went through in the earlier invocations.
EarlierDeletes(k) ==
    {rc \in UNION {{<<r, i>> : i \in 1..Len(earlier_runs[r])} : r \in 1..Len(earlier_runs)} :
        LET c == earlier_runs[rc[1]][rc[2]]
        IN c.op = "delete_object" /\ c.Key = k /\ c.outcome = "ok"}
\* This invocation follows one in which the mutation of key k succeeded.
RerunAfterSuccess(k) == Reversion /\ earlier_runs # << >> /\ EarlierDeletes(k) # {}
\* The keys this invocation has issued a mutation request for.
MutatedKeys == {MutationCalls[i].Key : i \in 1..Len(MutationCalls)}
\* What reversion needs of a key's history: a Content record on top and another below.
RevertibleHistory(h) ==
    /\ h # << >>
    /\ ~h[1].IsDeleteMarker
    /\ Cardinality(ContentPositions(h)) >= 2

\* C21 as stated: under reversion a key whose mutation succeeded in an earlier
\* invocation is not in the plan of the next invocation, which issues no mutation for
\* it, however many Content versions the key has.
C21_RerunFindsKeyIneligible ==
    \A k \in KeySet :
        RerunAfterSuccess(k) =>
            /\ ~DictHas(files, k)
            /\ k \notin MutatedKeys

\* C21 amended: under reversion the version an earlier invocation deleted is gone, and
\* the next invocation plans a key whose mutation succeeded before iff the history the
\* delete left still has a Content record on top
\* and a second Content record: a key that had exactly two Content versions is not
\* eligible again and no further mutation is issued for it, a key with three Content
\* versions on top of each other is planned again; mutations go to planned keys only.
C21_RerunEligibility ==
    \A k \in KeySet :
        RerunAfterSuccess(k) =>
            /\ \A rc \in EarlierDeletes(k) :
                  earlier_runs[rc[1]][rc[2]].VersionId \notin AllIds(store, k)
            /\ k \in MutatedKeys => DictHas(files, k)
            /\ pc = "planned" =>
                  /\ DictHas(files, k) <=> RevertibleHistory(store[k])
                  /\ Cardinality(ContentIds(store, k)) + Cardinality(EarlierDeletes(k)) = 2 =>
                        ~DictHas(files, k)
            /\ (pc = "done" /\ Cardinality(ContentIds(store, k)) = 1 /\ k \notin MutatedKeys) =>
                  ~DictHas(files, k)

\* C21 witness: key A had three Content versions; the first invocation deleted a3, the
\* second planned A again and deleted a2.
C21_Witness ==
    /\ RerunAfterSuccess("A")
    /\ pc = "done"
    /\ earlier_runs[1][Len(earlier_runs[1])] = Call("delete_object", "A", "a3", "ok")
    /\ calls[Len(calls)] = Call("delete_object", "A", "a2", "ok")
    /\ Len(store["A"]) = 1
    /\ store["A"][1].VersionId = "a1"

\* The version ids the bulk collector holds for a key.
CollectedIdsOf(k) ==
    IF ~DictHas(versions, k)
    THEN {}
    ELSE {IF script = "s3-bulk-restore" THEN DictGet(versions, k)[i].version_id
                                         ELSE DictGet(versions, k)[i].file_id :
             i \in 1..Len(DictGet(versions, k))}

\* C22: every mutation request names a key of the plan, which is a key the listing
\* returned records for, and a version id the listing of this run returned for that
\* very key (the key's records are untouched since the listing: no earlier request of
\* the run named the key), never an id of another key's records.
C22_RequestsNameListedVersions ==
    [][\A i \in 1..Len(NewCalls) :
          LET c == NewCalls[i]
          IN c.op \in MutationOps =>
                /\ c.Key \in DictKeySet(Plan)
                /\ c.Key \notin MutatedKeys
                /\ c.VersionId \in AllIds(store, c.Key)
                /\ \A k \in KeySet \ {c.Key} : c.VersionId \notin AllIds(store, k)
                /\ IF script \in BulkScripts
                   THEN /\ DictKeySet(latest_versions) \subseteq DictKeySet(versions)
                        /\ c.VersionId \in CollectedIdsOf(c.Key)
                   ELSE /\ DictKeySet(files) \subseteq DictKeySet(restorable_files)
                        /\ \A k \in DictKeySet(restorable_files) : store[k] # << >>]_vars

\* C22 witness: a run over two planned keys has issued a request for each, naming a
\* version of that key that is (copy policies) or was (delete policies) in the bucket.
C22_Witness ==
    /\ pc = "done"
    /\ DictLen(Plan) = 2
    /\ Len(MutationCalls) = 2
    /\ MutationCalls[1].Key = "A"
    /\ MutationCalls[1].VersionId \in {VersionIdOf("A", n) : n \in 1..MaxVersions}
    /\ MutationCalls[2].Key = "B"
    /\ MutationCalls[2].VersionId \in {VersionIdOf("B", n) : n \in 1..MaxVersions}

\* The listed records of key k that carry the key's greatest timestamp, by kind.
TopRecords(k) ==
    {i \in 1..Len(ListedRecords) :
        /\ ListedRecords[i].Key = k
        /\ \A j \in 1..Len(ListedRecords) :
              ListedRecords[j].Key = k =>
                 ListedRecords[j].LastModified <= ListedRecords[i].LastModified}
TopContent(k) == {i \in TopRecords(k) : ~ListedRecords[i].IsDeleteMarker}
TopMarkers(k) == {i \in TopRecords(k) : ListedRecords[i].IsDeleteMarker}
\* The key's newest Content record and newest delete marker carry the same timestamp.
TiedOnTop(k) == TopContent(k) # {} /\ TopMarkers(k) # {}

\* C23: in s3-bulk-restore, for a key whose newest Content record and newest delete
\* marker carry the same timestamp: when the two arrive in the same page (or the
\* Content record in an earlier page) the Content record is collected first, the key is
\* classified as live and left out of the plan; when the marker arrives in an earlier
\* page than the Content record the key is classified as deleted and planned, with that
\* Content record as the version to restore.
C23_TieBrokenByPageOrder ==
    (script = "s3-bulk-restore" /\ pc = "planned" /\ StoreAsListed) =>
        \A k \in KeySet :
            TiedOnTop(k) =>
                /\ (\E c \in TopContent(k) : \A m \in TopMarkers(k) : PageOf(c) <= PageOf(m)) =>
                      /\ ~DictGet(versions, k)[FirstNewest(DictGet(versions, k),
                                                          1..Len(DictGet(versions, k)))]
                              .is_delete_marker
                      /\ ~DictHas(latest_versions, k)
                /\ (\E m \in TopMarkers(k) : \A c \in TopContent(k) : PageOf(m) < PageOf(c)) =>
                      /\ DictHas(latest_versions, k)
                      /\ DictGet(latest_versions, k).version_id \in
                            {ListedRecords[c].VersionId : c \in TopContent(k)}

\* C23 witness: A and B each hold a delete marker listed ahead of a Content record of
\* the same timestamp; A's two records arrived in two pages and A is planned, B's in
\* one page and B is left out.
C23_Witness ==
    /\ script = "s3-bulk-restore"
    /\ pc = "planned"
    /\ \A k \in KeySet :
          /\ Len(store[k]) = 2
          /\ store[k][1].IsDeleteMarker
          /\ ~store[k][2].IsDeleteMarker
          /\ store[k][1].LastModified = store[k][2].LastModified
    /\ Len(ListCalls) = 3
    /\ DictHas(latest_versions, "A")
    /\ ~DictHas(latest_versions, "B")

====
